---- MODULE Spec2Model ----
(***************************************************************************)
(* Admin session gate of the storefront: the zustand auth store            *)
(* (store/authStore.ts), the auth service (lib/authService.ts), the API    *)
(* helper (lib/api.ts), and the two views that drive them (AdminLayout,    *)
(* AdminLogin).  One browser tab talks to one backend.                     *)
(*                                                                         *)
(* Environment assumptions, stated once:                                   *)
(*  - Web Storage getItem/setItem/removeItem do not fail.                  *)
(*  - JavaScript runs to completion between awaits, so the code between    *)
(*    two awaits of a handler is one step.                                 *)
(*  - zustand's persist middleware writes the partialized state under its  *)
(*    name after every set(), and merges the stored state into the initial *)
(*    state when the store is created.                                     *)
(*  - The backend is outside the repository: a login answer may lack the   *)
(*    user (the case handleSubmit guards against with                      *)
(*    `loggedInUser && token`), and any request may fail in transport.     *)
(***************************************************************************)
EXTENDS Naturals, FiniteSets, Sequences, TLC

(* ------------------------------ bounds -------------------------------- *)

\* Number of credentials the backend issues during a run.
MaxTokens == 2

\* Number of segments after the head of an image URL.
MaxParts == 3

(* ------------------------------ values -------------------------------- *)

\* token: string | null  -- null (and the absent storage item) is NoToken.
NoToken == 0

Tokens == 1..MaxTokens

\* user: AdminUser | null
Null == "null"

\* Two profiles of the backend: one privileged, one not.
Users == {"alice", "bob"}

\* AdminUser.isAdmin of a profile.
ProfileIsAdmin(u) == u = "alice"

\* What the login form can submit: the credentials of a profile, a wrong
\* password, or an empty field.
Credentials == Users \cup {"wrong", "empty"}

Routes == {"/admin", "/admin/login"}

StorageKinds == {"session", "local"}

NoError == "none"

ErrorMessages == {"Failed to fetch", "Invalid credentials"}

\* The persist option naming long-lived storage.
PersistStorage_Local == "local"

\* The storage create's persist option names (createJSONStorage).
PersistStorage == "session"

\* The storage signInAdmin, setToken, logout and getAuthHeader name.
TokenStorage == "session"

VARIABLES
  store,          \* useAuthStore state: user, isAdmin, isLoading, token
  tokenItem,      \* storage kind -> item 'auth_token'
  persistItem,    \* storage kind -> item 'auth-storage'
  route,          \* mounted admin route
  initPc,         \* position of initializeAuthListener in this page load
  verifyReq,      \* Authorization token of the in-flight /api/auth/me
  isSubmitting,   \* AdminLogin: a login request is in flight
  loginReq,       \* credentials of the in-flight /api/auth/login
  signInResult,   \* last value returned by signInAdmin
  verifyResult,   \* last value returned by verifyToken
  nextToken,      \* backend: next credential to issue
  owner,          \* backend: credential -> profile it was issued to
  valid,          \* backend: credentials it still accepts
  verifiedSinceLoad,  \* history: verifyToken resolved since this page load
  signedInSinceLoad,  \* history: a sign-in succeeded since this page load
  signedOut,      \* history: signed out and no sign-in succeeded since
  credAtFetch,    \* history: auth_token was stored when store.user was set
  rejected,       \* history: credentials the backend has rejected a request for
  lastOp,         \* history: the operation that produced this state
  sent,           \* history: the requests that operation sent to the backend API
  toast,          \* history: the notice (react-hot-toast) that operation showed
  db,             \* backend: products, categories and site settings
  view,           \* local state of the admin views and of the settings store
  call,           \* history: the service call of that operation and what it returned
  form,           \* history: the inputs of the submission that operation handled
  img             \* getEmbeddableImageUrl: its input, its environment, its result

vars == <<store, tokenItem, persistItem, route, initPc, verifyReq, isSubmitting,
          loginReq, signInResult, verifyResult, nextToken, owner, valid, verifiedSinceLoad,
          signedInSinceLoad, signedOut, credAtFetch, rejected, lastOp, sent, toast,
          db, view, call, form, img>>

(* ------------------------- storage and store -------------------------- *)

Absent == [present |-> FALSE, user |-> Null, isAdmin |-> FALSE, token |-> NoToken]

\* partialize: the part of the state that is persisted.
partialize(s) ==
  [present |-> TRUE, user |-> s.user, isAdmin |-> s.isAdmin, token |-> s.token]

\* The store's initial state, before hydration.
InitialState == [user |-> Null, isAdmin |-> FALSE, isLoading |-> TRUE, token |-> NoToken]

\* create(persist(...)): the persisted part, when present, overrides the
\* initial state; isLoading is not persisted.
Hydrate(per) ==
  LET p == per[PersistStorage] IN
  IF p.present
    THEN [InitialState EXCEPT !.user = p.user, !.isAdmin = p.isAdmin, !.token = p.token]
    ELSE InitialState

\* A "world" w is what store actions read and write:
\* [store, tok (auth_token items), per (auth-storage items)].
World == [store |-> store, tok |-> tokenItem, per |-> persistItem]

\* set(partial) under persist: update the state, then write auth-storage.
set(w, s) == [w EXCEPT !.store = s, !.per[PersistStorage] = partialize(s)]

\* user?.isAdmin || false
UserIsAdmin(u) == IF u = Null THEN FALSE ELSE ProfileIsAdmin(u)

\* setUser that leaves isAdmin as it was.
setUser_KeepsIsAdmin(w, u) == set(w, [w.store EXCEPT !.user = u])

setUser(w, u) == set(w, [w.store EXCEPT !.user = u, !.isAdmin = UserIsAdmin(u)])

\* setIsAdmin that grants the flag whatever it is given.
setIsAdmin_Always(w, a) == set(w, [w.store EXCEPT !.isAdmin = TRUE])

setIsAdmin(w, a) == set(w, [w.store EXCEPT !.isAdmin = a])

\* setIsLoading that leaves the store as it is.
setIsLoading_Ignored(w, l) == w

setIsLoading(w, l) == set(w, [w.store EXCEPT !.isLoading = l])

setToken(w, t) ==
  LET w1 == [w EXCEPT !.tok[TokenStorage] = t]  \* setItem, or removeItem for null
  IN set(w1, [w1.store EXCEPT !.token = t])

\* logout that removes the credential but resets only the token.
logout_KeepsUser(w) ==
  LET w1 == [w EXCEPT !.tok[TokenStorage] = NoToken,
                      !.per[PersistStorage] = Absent]
  IN set(w1, [w1.store EXCEPT !.token = NoToken])

logout(w) ==
  LET w1 == [w EXCEPT !.tok[TokenStorage] = NoToken,
                      !.per[PersistStorage] = Absent]
  IN set(w1, [w1.store EXCEPT !.user = Null, !.isAdmin = FALSE, !.token = NoToken])

\* getAuthHeader: the Authorization token of a request (NoToken: no header).
getAuthHeader(tok) == tok[TokenStorage]

(* ------------------------------- views -------------------------------- *)

\* AdminLayoutView with the authorization test made before the loading test.
AdminLayoutView_AuthFirst(s) ==
  IF s.user # Null /\ s.isAdmin THEN "content"
  ELSE IF s.isLoading THEN "loading"
  ELSE "none"

\* What AdminLayout returns for a store state.
AdminLayoutView(s) ==
  IF s.isLoading THEN "loading"
  ELSE IF s.user = Null \/ ~s.isAdmin THEN "none"
  ELSE "content"

\* The redirect effects of AdminLayout and AdminLogin, run after a render.
AfterEffects(r, s) ==
  IF r = "/admin" /\ ~s.isLoading /\ (s.user = Null \/ ~s.isAdmin) THEN "/admin/login"
  ELSE IF r = "/admin/login" /\ ~s.isLoading /\ s.user # Null /\ s.isAdmin THEN "/admin"
  ELSE r

AdminContentRendered == route = "/admin" /\ AdminLayoutView(store) = "content"

(* ------------------------ requests and notices ------------------------ *)

NoToast == "none"

\* A request as fetch receives it: the endpoint and the Authorization header
\* (authorization: the header is there; bearer: the token after 'Bearer ',
\* NoToken for the text 'null').  sent is the set of requests of a step.
NoRequest == {}

\* apiRequest / apiFormRequest up to fetch: the headers are those of
\* getAuthHeader, which has an Authorization entry only for a stored token.
apiRequestSends(endpoint, tok) ==
  [endpoint |-> endpoint,
   authorization |-> getAuthHeader(tok) # NoToken,
   bearer |-> getAuthHeader(tok)]

\* localStorage.getItem('admin_token'): no code of the application writes
\* this item, so the read gives null.
AdminTokenItem == NoToken

\* The fetch of handleGenerateAIDescription: `Bearer ${token}` with the
\* token read from AdminTokenItem.
generateDescriptionSends ==
  [endpoint |-> "/api/ai-products/generate-description",
   authorization |-> TRUE,
   bearer |-> AdminTokenItem]

(* ---------------------- catalog values and state ---------------------- *)

\* Products and categories the backend can hold.
MaxProducts == 1

MaxCategories == 1

\* Requests for one category that the products page has outstanding at a time.
MaxPending == 1

\* Settings requests of one subscription that are in flight at a time.
MaxInFlight == 2

ProductIds == 1..MaxProducts

CategoryIds == 1..MaxCategories

\* const defaultSettings (siteName, siteDescription and driveFolderId are
\* left out)
defaultSettings == [homepageEnabled |-> TRUE, productsPageEnabled |-> TRUE]

SettingsValues == [homepageEnabled : BOOLEAN, productsPageEnabled : BOOLEAN]

\* The category filters of the customers' products page ('accessories' is
\* left out).
ShopCategories == {"all", "mens", "womens"}

\* useState<Product[]>([]) of the customers' products page: no response has
\* been put in the list.  Otherwise the list is told by the category its
\* request was for and by what the service function returned.
NoList == [category |-> "none", ret |-> "[]"]

\* subscribeToSettings has not been called: no interval is set, its cleanup
\* function has not been called, none of its requests is in flight.
NoPoll == [interval |-> FALSE, cancelled |-> FALSE, inFlight |-> 0]

\* A product is absent, or present and enabled or disabled.
ProductStates == {"absent", "enabled", "disabled"}

InitialDb ==
  [products |-> [p \in ProductIds |-> "absent"], categories |-> {},
   settings |-> defaultSettings]

\* useState<Product[]>([]), useState<Category[]>([]), the settings store's
\* initial settings, whether a fetchProducts is under way, and the admin
\* page in AdminLayout's Outlet.
InitialView ==
  [products |-> [p \in ProductIds |-> "absent"], categories |-> {},
   settings |-> defaultSettings, fetching |-> FALSE, page |-> "dashboard",
   category |-> "all", pending |-> [c \in ShopCategories |-> 0], listOf |-> NoList,
   poll |-> NoPoll]

(* ----------------------------- api helper ----------------------------- *)

\* response.status of a non-OK response.
Statuses == {401, 500}

NoStatus == 0

\* What a request settles with: fetch rejects (transport), or a response with
\* response.ok true or false.  body says what response.json() meets: a body
\* it cannot parse, JSON (of an OK response), JSON with a non-empty detail
\* field, or JSON without one.
Responses ==
  {[kind |-> "transport", status |-> NoStatus, body |-> "none"]}
    \cup {[kind |-> "ok", status |-> NoStatus, body |-> b] : b \in {"json", "unparsable"}}
    \cup {[kind |-> "error", status |-> st, body |-> b] :
            st \in Statuses, b \in {"unparsable", "detail", "no detail"}}

\* The answers the handlers of the admin pages are tried with: one of each
\* kind.
Outcomes ==
  {r \in Responses : r.kind = "error" => (r.status = 500 /\ r.body = "detail")}

NoResponse == [kind |-> "none", status |-> NoStatus, body |-> "none"]

\* An Error message: its text and the status code written after it.
Message(text, status) == [text |-> text, status |-> status]

NoMessage == Message("none", NoStatus)

\* The detail field of an error body that carries one.
BodyDetail == "Not authenticated"

\* The common body of apiRequest and apiFormRequest once fetch has settled
\* with resp; generic is the detail put in place of a body that cannot be
\* parsed.  An absent detail and an empty one are both falsy.
settle(resp, generic) ==
  CASE resp.kind = "transport" ->
         [threw |-> TRUE, ret |-> "none", error |-> Message("Failed to fetch", NoStatus)]
    [] resp.kind = "ok" ->
         IF resp.body = "json"
           THEN [threw |-> FALSE, ret |-> "data", error |-> NoMessage]
           ELSE [threw |-> TRUE, ret |-> "none", error |-> Message("SyntaxError", NoStatus)]
    [] resp.kind = "error" ->
         LET errorData == CASE resp.body = "unparsable" -> [detail |-> generic]
                            [] resp.body = "detail" -> [detail |-> BodyDetail]
                            [] resp.body = "no detail" -> [detail |-> ""]
         IN [threw |-> TRUE, ret |-> "none",
             error |-> IF errorData.detail # ""
                         THEN Message(errorData.detail, NoStatus)
                         ELSE Message("HTTP error! status: ", resp.status)]

apiRequest(resp) == settle(resp, "Request failed")

apiFormRequest(resp) == settle(resp, "Upload failed")

(* --------------------------- service layer ---------------------------- *)

\* try { ... } catch (error) { console.error(error); return fallback }
caught(r, fallback) ==
  IF r.threw THEN [threw |-> FALSE, ret |-> fallback, error |-> r.error] ELSE r

\* const x = await r; return v  (the return is not reached when r throws)
andThen(r, v) == IF r.threw THEN r ELSE [r EXCEPT !.ret = v]

getEnabledProducts(resp) == caught(apiRequest(resp), "[]")

getProductsByCategory(resp) == caught(apiRequest(resp), "[]")

\* getProductById without its try/catch.
getProductById_NoCatch(resp) == apiRequest(resp)

getProductById(resp) == caught(apiRequest(resp), "null")

\* The service function getAllProducts (the action of that name is the
\* dashboard's use of it).
getAllProductsResult(resp) == caught(apiRequest(resp), "[]")

getProductStats(resp) == caught(apiRequest(resp), "zeroed stats")

getCategories(resp) == caught(apiRequest(resp), "[]")

getAllCategories(resp) == caught(apiRequest(resp), "[]")

getEnabledCategories(resp) == caught(apiRequest(resp), "[]")

getSiteSettings(resp) == caught(apiRequest(resp), "defaultSettings")

ReadOps ==
  {"getEnabledProducts", "getProductsByCategory", "getProductById", "getAllProducts",
   "getProductStats", "getCategories", "getAllCategories", "getEnabledCategories",
   "getSiteSettings"}

\* return response.id  (the body of an OK answer is a Product with an id)
createProduct(resp) == caught(andThen(apiRequest(resp), "id"), "null")

\* updateProduct that answers true whatever happened.
updateProduct_AlwaysTrue(resp) == caught(andThen(apiRequest(resp), "true"), "true")

updateProduct(resp) == caught(andThen(apiRequest(resp), "true"), "false")

toggleProductEnabled(resp) == caught(andThen(apiRequest(resp), "true"), "false")

deleteProduct(resp) == caught(andThen(apiRequest(resp), "true"), "false")

createCategory(resp) == caught(andThen(apiRequest(resp), "id"), "null")

deleteCategory(resp) == caught(andThen(apiRequest(resp), "true"), "false")

updateSiteSettings(resp) == caught(andThen(apiRequest(resp), "true"), "false")

\* The service function seedCategories: the seeded list, [] when the request
\* fails.
seedCategories(resp) == caught(apiRequest(resp), "[]")

\* JavaScript truthiness of a returned value: `if (success)`, `if (id)`.
Truthy(v) == v \in {"true", "id", "data"}

\* const maxSize = 5 * 1024 * 1024
maxSize == 5242880

allowedTypes == {"image/jpeg", "image/png", "image/gif", "image/webp"}

NoValidationError == "null"

\* validateImage without its size test.
validateImage_NoSizeCheck(file) ==
  IF file.type \notin allowedTypes
    THEN [valid |-> FALSE,
          error |-> "Invalid file type. Only JPEG, PNG, GIF, and WebP are allowed."]
    ELSE [valid |-> TRUE, error |-> NoValidationError]

validateImage(file) ==
  IF file.type \notin allowedTypes
    THEN [valid |-> FALSE,
          error |-> "Invalid file type. Only JPEG, PNG, GIF, and WebP are allowed."]
  ELSE IF file.size > maxSize
    THEN [valid |-> FALSE, error |-> "File size too large. Maximum size is 5MB."]
  ELSE [valid |-> TRUE, error |-> NoValidationError]

\* Files an upload can be given: types inside and outside allowedTypes,
\* sizes around maxSize.
Files ==
  [type : {"image/jpeg", "image/webp", "application/pdf"},
   size : {maxSize, maxSize + 1}]

NoCall ==
  [op |-> "none", resp |-> NoResponse, threw |-> FALSE, ret |-> "none",
   error |-> NoMessage]

\* The inputs of a submission: which fields of the form are filled in (for
\* an upload, the File's type and size).
NoForm ==
  [kind |-> "none", email |-> TRUE, password |-> TRUE, name |-> TRUE, price |-> TRUE,
   editing |-> FALSE, link |-> TRUE, type |-> "none", size |-> 0]

(* ------------------------- image URL helper --------------------------- *)

\* A string is the sequence of its characters.

Letters ==
  {"a", "b", "c", "d", "e", "f", "g", "h", "i", "j", "k", "l", "m", "n", "o", "p",
   "q", "r", "s", "t", "u", "v", "w", "x", "y", "z", "A", "B", "C", "D", "E", "F",
   "G", "H", "I", "J", "K", "L", "M", "N", "O", "P", "Q", "R", "S", "T", "U", "V",
   "W", "X", "Y", "Z"}

Digits ==
  {"0", "1", "2", "3", "4", "5", "6", "7", "8", "9"}

\* The character class [a-zA-Z0-9_-] of the identifier patterns.
IdChars == Letters \cup Digits \cup {"_", "-"}

\* s.startsWith(p)
startsWith(s, p) == Len(s) >= Len(p) /\ SubSeq(s, 1, Len(p)) = p

\* s.includes(p)
includes(s, p) ==
  \E i \in 1..Len(s) : i + Len(p) <= Len(s) + 1 /\ SubSeq(s, i, i + Len(p) - 1) = p

\* The prefixes of the five identifier patterns, in the order the function
\* tries them: googleusercontent\.com\/d\/ , \/file\/d\/ , open\?id= ,
\* [?&]id= , \/d\/ ; each is followed by ([a-zA-Z0-9_-]+).
Patterns ==
  << {<<"g", "o", "o", "g", "l", "e", "u", "s", "e", "r", "c", "o", "n", "t", "e",
          "n", "t", ".", "c", "o", "m", "/", "d", "/">>},
     {<<"/", "f", "i", "l", "e", "/", "d", "/">>},
     {<<"o", "p", "e", "n", "?", "i", "d", "=">>},
     {<<"?", "i", "d", "=">>, <<"&", "i", "d", "=">>},
     {<<"/", "d", "/">>} >>

\* capture of the longest identifier made of one character only.
capture_OneChar(s, j) == SubSeq(s, j, j)

\* The group ([a-zA-Z0-9_-]+) matched from position j on: + is greedy, so it
\* is the longest run of identifier characters.
capture(s, j) ==
  SubSeq(s, j, CHOOSE e \in j..Len(s) :
                 /\ \A m \in j..e : s[m] \in IdChars
                 /\ e = Len(s) \/ s[e + 1] \notin IdChars)

\* s.match(/P([a-zA-Z0-9_-]+)/)[1] for a pattern with the prefixes P, <<>> for
\* null: the match is the leftmost place where a prefix is followed by an
\* identifier character.
match(s, P) ==
  LET plen == Len(CHOOSE p \in P : TRUE)
      hits == {i \in 1..Len(s) :
                 /\ i + plen <= Len(s)
                 /\ SubSeq(s, i, i + plen - 1) \in P
                 /\ s[i + plen] \in IdChars}
  IN IF hits = {} THEN <<>>
     ELSE LET first == CHOOSE h \in hits : \A g \in hits : h <= g
          IN capture(s, first + plen)

\* fileId with every matching pattern overriding the ones before it.
fileId_LaterOverrides(u) ==
  LET f1 == match(u, Patterns[1])
      f2 == IF match(u, Patterns[2]) # <<>> THEN match(u, Patterns[2]) ELSE f1
      f3 == IF match(u, Patterns[3]) # <<>> THEN match(u, Patterns[3]) ELSE f2
      f4 == IF match(u, Patterns[4]) # <<>> THEN match(u, Patterns[4]) ELSE f3
  IN IF match(u, Patterns[5]) # <<>> THEN match(u, Patterns[5]) ELSE f4

\* let fileId = ''; if (lh3Match) fileId = lh3Match[1];
\* if (!fileId && fileMatch) fileId = fileMatch[1]; ... (<<>> is '')
fileId(u) ==
  LET f1 == match(u, Patterns[1])
      f2 == IF f1 = <<>> /\ match(u, Patterns[2]) # <<>> THEN match(u, Patterns[2]) ELSE f1
      f3 == IF f2 = <<>> /\ match(u, Patterns[3]) # <<>> THEN match(u, Patterns[3]) ELSE f2
      f4 == IF f3 = <<>> /\ match(u, Patterns[4]) # <<>> THEN match(u, Patterns[4]) ELSE f3
  IN IF f4 = <<>> /\ match(u, Patterns[5]) # <<>> THEN match(u, Patterns[5]) ELSE f4

\* The characters encodeURIComponent leaves as they are.
Unreserved == Letters \cup Digits \cup {"-", "_", ".", "!", "~", "*", "'", "(", ")"}

\* The escape of a character of the inputs that is not left as it is.
PercentEncoded(c) ==
  CASE c = ":" -> <<"%", "3", "A">>
    [] c = "/" -> <<"%", "2", "F">>
    [] c = "?" -> <<"%", "3", "F">>
    [] c = "=" -> <<"%", "3", "D">>
    [] c = "&" -> <<"%", "2", "6">>
    [] c = "%" -> <<"%", "2", "5">>

\* encodeURIComponent that escapes nothing.
encodeURIComponent_Identity(s) == s

RECURSIVE encodeURIComponentFrom(_, _)
encodeURIComponentFrom(s, i) ==
  IF i > Len(s) THEN <<>>
  ELSE (IF s[i] \in Unreserved THEN <<s[i]>> ELSE PercentEncoded(s[i]))
         \o encodeURIComponentFrom(s, i + 1)

encodeURIComponent(s) == encodeURIComponentFrom(s, 1)

\* A url argument: null/undefined, or a string.
NullUrl == [isNull |-> TRUE, chars |-> <<>>]

\* isAbsent that lets every argument through.
isAbsent_Never(url) == FALSE

\* !url : null, undefined and the empty string
isAbsent(url) == url.isNull \/ url.chars = <<>>

\* referencesKnownHost that takes every URL for a hosted one.
referencesKnownHost_Always(u) == TRUE

\* url.includes('google.com') || url.includes('googleusercontent.com')
referencesKnownHost(u) ==
  \/ includes(u, <<"g", "o", "o", "g", "l", "e", ".", "c", "o", "m">>)
  \/ includes(u,
        <<"g", "o", "o", "g", "l", "e", "u", "s", "e", "r", "c", "o", "n", "t",
          "e", "n", "t", ".", "c", "o", "m">>)

\* import.meta.env.VITE_API_URL || 'http://localhost:8000'  (env: the
\* configured value, <<>> when there is none)
apiUrl(env) ==
  IF env # <<>> THEN env
  ELSE
       <<"h", "t", "t", "p", ":", "/", "/", "l", "o", "c", "a", "l", "h", "o", "s",
         "t", ":", "8", "0", "0", "0">>

getEmbeddableImageUrl(url, env) ==
  LET u == url.chars IN
  IF isAbsent(url)
    THEN
         <<"/", "p", "l", "a", "c", "e", "h", "o", "l", "d", "e", "r", ".", "j",
           "p", "g">>
  ELSE IF startsWith(u, <<"d", "a", "t", "a", ":">>) THEN u
  ELSE IF startsWith(u, <<"/">>) THEN u
  ELSE IF startsWith(u,
                     <<"h", "t", "t", "p", ":", "/", "/", "l", "o", "c", "a", "l",
                       "h", "o", "s", "t">>)
    THEN u
  ELSE IF ~referencesKnownHost(u) THEN u
  ELSE IF fileId(u) # <<>>
    THEN apiUrl(env)
           \o
              <<"/", "a", "p", "i", "/", "i", "m", "a", "g", "e", "s", "/", "d",
                "r", "i", "v", "e", "/">>
           \o fileId(u)
  ELSE apiUrl(env)
         \o
            <<"/", "a", "p", "i", "/", "i", "m", "a", "g", "e", "s", "/", "p", "r",
              "o", "x", "y", "?", "u", "r", "l", "=">>
         \o encodeURIComponent(u)

\* AdminProducts.extractDriveUrl: '' for '', the input itself when it names
\* the content host, else https://lh3.googleusercontent.com/d/<id> for the
\* first of /file/d/<id>, [?&]id=<id>, uc?export=view&id=<id> and an input
\* that is nothing but 20 or more identifier characters, else the input.
extractDriveUrl(input) ==
  LET file == match(input, {<<"/", "f", "i", "l", "e", "/", "d", "/">>})
      open == match(input, {<<"?", "i", "d", "=">>, <<"&", "i", "d", "=">>})
      uc   == match(input,
                {
                  <<"u", "c", "?", "e", "x", "p", "o", "r", "t", "=", "v",
                    "i", "e", "w", "&", "i", "d", "=">>})
      f1   == file
      f2   == IF f1 = <<>> /\ open # <<>> THEN open ELSE f1
      f3   == IF f2 = <<>> /\ uc # <<>> THEN uc ELSE f2
      f4   == IF /\ f3 = <<>>
                 /\ Len(input) >= 20
                 /\ \A k \in 1..Len(input) : input[k] \in IdChars
              THEN input ELSE f3
  IN IF input = <<>> THEN <<>>
     ELSE IF includes(input,
            <<"l", "h", "3", ".", "g", "o", "o", "g", "l", "e", "u", "s",
              "e", "r", "c", "o", "n", "t", "e", "n", "t", ".", "c", "o",
              "m">>)
     THEN input
     ELSE IF f4 # <<>>
     THEN
          <<"h", "t", "t", "p", "s", ":", "/", "/", "l", "h", "3", ".", "g",
            "o", "o", "g", "l", "e", "u", "s", "e", "r", "c", "o", "n", "t",
            "e", "n", "t", ".", "c", "o", "m", "/", "d", "/">>
            \o f4
     ELSE input

\* The value of VITE_API_URL: none, or a configured base.
Envs ==
  {<<>>,
   <<"h", "t", "t", "p", "s", ":", "/", "/", "a", "p", "i", ".", "s", "h", "o",
     "p">>}

\* What an input starts with: nothing, the scheme of inline data, the local
\* development host, a host that is not a known hosting domain, and the two
\* hosts that are.
Heads ==
  {<<>>,
   <<"d", "a", "t", "a", ":">>,
   <<"h", "t", "t", "p", ":", "/", "/", "l", "o", "c", "a", "l", "h", "o", "s",
     "t">>,
   <<"h", "t", "t", "p", "s", ":", "/", "/", "e", "x", "a", "m", "p", "l", "e",
     ".", "c", "o", "m">>,
   <<"h", "t", "t", "p", "s", ":", "/", "/", "d", "r", "i", "v", "e", ".", "g",
     "o", "o", "g", "l", "e", ".", "c", "o", "m">>,
   <<"h", "t", "t", "p", "s", ":", "/", "/", "l", "h", "3", ".", "g", "o", "o",
     "g", "l", "e", "u", "s", "e", "r", "c", "o", "n", "t", "e", "n", "t", ".",
     "c", "o", "m">>}

\* What follows: the forms the identifier patterns look for, each with an
\* identifier of its own, the /file/d/ form without one, a path segment,
\* identifier characters, and the name of a hosting domain.
Segments ==
  {<<"/", "f", "i", "l", "e", "/", "d", "/", "f", "F", "1">>,
   <<"/", "f", "i", "l", "e", "/", "d", "/">>,
   <<"/", "d", "/", "d", "D", "2">>,
   <<"/", "o", "p", "e", "n", "?", "i", "d", "=", "o", "O", "3">>,
   <<"?", "i", "d", "=", "q", "_", "4">>,
   <<"&", "i", "d", "=", "a", "-", "5">>,
   <<"/", "v", "i", "e", "w">>,
   <<"Z", "z", "0">>,
   <<"g", "o", "o", "g", "l", "e", ".", "c", "o", "m">>}

\* The concatenations of at most n segments.
RECURSIVE Paths(_)
Paths(n) ==
  IF n = 0 THEN {<<>>}
  ELSE Paths(n - 1) \cup {p \o s : p \in Paths(n - 1), s \in Segments}

\* The arguments getEmbeddableImageUrl is tried with.
Urls ==
  {NullUrl} \cup {[isNull |-> FALSE, chars |-> h \o p] : h \in Heads, p \in Paths(MaxParts)}

\* No image is being shown.
NoImage ==
  [url |-> NullUrl, env |-> <<>>, done |-> FALSE, result |-> <<>>, pasted |-> <<>>]

(* ------------------------------- Init --------------------------------- *)

\* The state of a tab that has just opened the site, the image helper aside.
InitPage ==
  /\ tokenItem = [k \in StorageKinds |-> NoToken]
  /\ persistItem = [k \in StorageKinds |-> Absent]
  /\ store = Hydrate(persistItem)
  /\ route \in Routes
  /\ initPc = "start"
  /\ verifyReq = NoToken
  /\ isSubmitting = FALSE
  /\ loginReq = "empty"
  /\ signInResult = [user |-> Null, token |-> NoToken, error |-> NoError]
  /\ verifyResult = [valid |-> FALSE, user |-> Null]
  /\ nextToken = 1
  /\ owner = [t \in Tokens |-> Null]
  /\ valid = {}
  /\ verifiedSinceLoad = FALSE
  /\ signedInSinceLoad = FALSE
  /\ signedOut = FALSE
  /\ credAtFetch = FALSE
  /\ rejected = {}
  /\ lastOp = "Open"
  /\ sent = NoRequest
  /\ toast = NoToast
  /\ db = InitialDb
  /\ view = InitialView
  /\ call = NoCall
  /\ form = NoForm

Init ==
  /\ InitPage
  /\ img = NoImage

(* ------------------------- service operations ------------------------- *)

\* An answer of the backend (or of the transport) to a request.
Ok(t, u) == [ok |-> TRUE, access_token |-> t, user |-> u, error |-> NoError]

Failed(msg) == [ok |-> FALSE, access_token |-> NoToken, user |-> Null, error |-> msg]

\* signInAdmin that returns the credential without storing it.
signInAdmin_NoStore(w, resp) ==
  IF resp.ok
    THEN [w |-> w,
          result |-> [user |-> resp.user, token |-> resp.access_token, error |-> NoError]]
    ELSE [w |-> w,
          result |-> [user |-> Null, token |-> NoToken, error |-> resp.error]]

\* signInAdmin once apiRequest has settled with resp: a success stores the
\* credential and returns it with the user; a throw is turned into an error.
signInAdmin(w, resp) ==
  IF resp.ok
    THEN [w |-> [w EXCEPT !.tok[TokenStorage] = resp.access_token],
          result |-> [user |-> resp.user, token |-> resp.access_token, error |-> NoError]]
    ELSE [w |-> w,
          result |-> [user |-> Null, token |-> NoToken, error |-> resp.error]]

\* signOutAdmin: removes the credential; removeItem does not throw.
signOutAdmin(w) ==
  [w |-> [w EXCEPT !.tok[TokenStorage] = NoToken], error |-> NoError]

\* verifyToken before its await: without a stored credential it returns
\* {valid: false, user: null} at once, otherwise it sends /api/auth/me.
verifyTokenSendsRequest(tok) == tok[TokenStorage] # NoToken

\* verifyToken once apiRequest has settled with resp.
verifyToken(resp) ==
  IF resp.ok THEN [valid |-> TRUE, user |-> resp.user]
             ELSE [valid |-> FALSE, user |-> Null]

\* The backend's answer to a request carrying credential h.
Authorized(h) == h # NoToken /\ h \in valid

(* ------------------------------ actions ------------------------------- *)

\* The variables of the catalog and of the image helper.
Elsewhere == <<db, view, call, img>>

\* A step that sends no request and shows no notice.
Quiet ==
  /\ sent' = NoRequest
  /\ toast' = NoToast
  /\ form' = NoForm
  /\ UNCHANGED Elsewhere

AuthState == <<store, tokenItem, persistItem, route, initPc, verifyReq, isSubmitting,
               loginReq, signInResult, verifyResult, nextToken, owner, valid,
               verifiedSinceLoad, signedInSinceLoad, signedOut, credAtFetch, rejected>>

Apply(w) ==
  /\ store' = w.store
  /\ tokenItem' = w.tok
  /\ persistItem' = w.per

Backend == <<nextToken, owner, valid>>

LoginForm == <<isSubmitting, loginReq, signInResult>>

Verification == <<initPc, verifyReq, verifyResult>>

\* initializeAuthListener up to its first await (or to its end).
InitializeAuthListener ==
  /\ initPc = "start"
  /\ lastOp' = "initializeAuthListener"
  /\ sent' = IF (store.user = Null \/ store.token = NoToken)
                  /\ verifyTokenSendsRequest(tokenItem)
               THEN {apiRequestSends("/api/auth/me", tokenItem)} ELSE NoRequest
  /\ toast' = NoToast
  /\ form' = NoForm
  /\ UNCHANGED Elsewhere
  /\ IF store.user # Null /\ store.token # NoToken
       THEN \* persisted user and token: no verification
            LET w == setIsLoading(setIsAdmin(World, UserIsAdmin(store.user)), FALSE) IN
            /\ Apply(w)
            /\ route' = AfterEffects(route, w.store)
            /\ initPc' = "done"
            /\ verifyReq' = verifyReq
       ELSE IF verifyTokenSendsRequest(tokenItem)
         THEN /\ verifyReq' = getAuthHeader(tokenItem)
              /\ initPc' = "verifying"
              /\ UNCHANGED <<store, tokenItem, persistItem, route>>
         ELSE LET w == setIsLoading(World, FALSE) IN
              /\ Apply(w)
              /\ route' = AfterEffects(route, w.store)
              /\ initPc' = "done"
              /\ verifyReq' = verifyReq
  /\ UNCHANGED <<LoginForm, Backend, verifyResult, verifiedSinceLoad,
                 signedInSinceLoad, signedOut, credAtFetch, rejected>>

\* initializeAuthListener from the settling of /api/auth/me to its end.
\* The answer is the profile of the credential, a body without a user, a
\* rejection, or a transport failure.
VerifyResolve ==
  /\ initPc = "verifying"
  /\ \E resp \in {Failed("Failed to fetch")}
                 \cup (IF Authorized(verifyReq)
                         THEN {Ok(NoToken, owner[verifyReq]), Ok(NoToken, Null)}
                         ELSE {Failed("Invalid credentials")}) :
       LET v  == verifyToken(resp)
           w1 == IF v.valid /\ v.user # Null
                   THEN setIsAdmin(setUser(World, v.user), UserIsAdmin(v.user))
                   ELSE World
           w  == setIsLoading(w1, FALSE)
       IN /\ Apply(w)
          /\ route' = AfterEffects(route, w.store)
          /\ credAtFetch' = IF v.valid /\ v.user # Null
                              THEN tokenItem[TokenStorage] # NoToken
                              ELSE credAtFetch
          /\ verifyResult' = v
          /\ rejected' = IF ~resp.ok /\ resp.error = "Invalid credentials"
                           THEN rejected \cup {verifyReq} ELSE rejected
  /\ initPc' = "done"
  /\ verifyReq' = NoToken
  /\ verifiedSinceLoad' = TRUE
  /\ lastOp' = "VerifyResolve"
  /\ Quiet
  /\ UNCHANGED <<LoginForm, Backend, signedInSinceLoad, signedOut>>

\* AdminLogin.handleSubmit up to its await.  The listener's synchronous part
\* runs in the task that loads the page, before any input event.  The
\* model keeps one login request in flight at a time (the submit button is
\* disabled while isSubmitting).
SubmitLogin ==
  /\ route = "/admin/login"
  /\ initPc # "start"
  /\ ~isSubmitting
  /\ \E c \in Credentials :
       IF c = "empty"
         THEN \* 'Please enter email and password': no request
              /\ lastOp' = "SubmitEmpty"
              /\ toast' = "Please enter email and password"
              /\ sent' = NoRequest
              /\ \E email \in BOOLEAN, password \in BOOLEAN :
                   /\ ~(email /\ password)
                   /\ form' = [NoForm EXCEPT !.kind = "login", !.email = email,
                                              !.password = password]
              /\ UNCHANGED LoginForm
         ELSE /\ lastOp' = "SubmitLogin"
              /\ form' = [NoForm EXCEPT !.kind = "login"]
              /\ toast' = NoToast
              /\ sent' = {apiRequestSends("/api/auth/login", tokenItem)}
              /\ isSubmitting' = TRUE
              /\ loginReq' = c
              /\ signInResult' = signInResult
  /\ UNCHANGED <<store, tokenItem, persistItem, route, Verification, Backend,
                 verifiedSinceLoad, signedInSinceLoad, signedOut, credAtFetch,
                 rejected>>
  /\ UNCHANGED Elsewhere

\* handleSubmitAfter that clears the session when the sign-in failed.
handleSubmitAfter_ClearsOnError(w, result, r) ==
  IF result.error # NoError
    THEN [w |-> setToken(setUser(w, Null), NoToken), route |-> r]
    ELSE IF result.user # Null /\ result.token # NoToken
      THEN [w |-> setToken(setUser(w, result.user), result.token), route |-> "/admin"]
      ELSE [w |-> w, route |-> r]

\* handleSubmit after signInAdmin returned result.
handleSubmitAfter(w, result, r) ==
  IF result.error # NoError
    THEN [w |-> w, route |-> r]
    ELSE IF result.user # Null /\ result.token # NoToken
      THEN [w |-> setToken(setUser(w, result.user), result.token), route |-> "/admin"]
      ELSE [w |-> w, route |-> r]

\* The login request settles: signInAdmin finishes and handleSubmit with it.
LoginResolve ==
  /\ isSubmitting
  /\ \E resp \in {Failed("Failed to fetch")}
                 \cup (IF loginReq \in Users /\ nextToken <= MaxTokens
                         THEN {Ok(nextToken, loginReq), Ok(nextToken, Null)}
                         ELSE {})
                 \cup (IF loginReq = "wrong" THEN {Failed("Invalid credentials")} ELSE {}) :
       LET si == signInAdmin(World, resp)
           hs == handleSubmitAfter(si.w, si.result, route)
           \* handleSubmit called setUser
           stored == si.result.error = NoError /\ si.result.user # Null
                       /\ si.result.token # NoToken
       IN /\ Apply(hs.w)
          /\ route' = AfterEffects(hs.route, hs.w.store)
          /\ signInResult' = si.result
          /\ nextToken' = IF resp.ok THEN nextToken + 1 ELSE nextToken
          /\ owner' = IF resp.ok THEN [owner EXCEPT ![resp.access_token] = loginReq] ELSE owner
          /\ valid' = IF resp.ok THEN valid \cup {resp.access_token} ELSE valid
          /\ signedInSinceLoad' = (signedInSinceLoad \/ resp.ok)
          /\ signedOut' = (signedOut /\ ~resp.ok)
          /\ credAtFetch' = IF stored THEN si.w.tok[TokenStorage] # NoToken ELSE credAtFetch
          /\ lastOp' = IF ~resp.ok THEN "LoginFail"
                        ELSE IF resp.user # Null THEN "LoginOk" ELSE "LoginNoUser"
          /\ toast' = IF si.result.error # NoError THEN si.result.error
                       ELSE IF stored THEN "Welcome back!" ELSE NoToast
  /\ sent' = NoRequest
  /\ form' = NoForm
  /\ UNCHANGED Elsewhere
  /\ isSubmitting' = FALSE
  /\ loginReq' = "empty"
  /\ UNCHANGED <<Verification, verifiedSinceLoad, rejected>>

\* AdminLayout.handleLogout.
handleLogout ==
  /\ AdminContentRendered
  /\ LET so == signOutAdmin(World) IN
       IF so.error # NoError
         THEN \* 'Logout failed'
              /\ Apply(so.w)
              /\ UNCHANGED <<route, signedOut, credAtFetch>>
         ELSE LET w == logout(so.w) IN
              /\ Apply(w)
              /\ route' = AfterEffects("/admin/login", w.store)
              /\ signedOut' = TRUE
              /\ credAtFetch' = FALSE
  /\ lastOp' = "handleLogout"
  /\ toast' = IF signOutAdmin(World).error # NoError
                THEN "Logout failed" ELSE "Logged out successfully"
  /\ sent' = NoRequest
  /\ form' = NoForm
  /\ UNCHANGED Elsewhere
  /\ UNCHANGED <<Verification, LoginForm, Backend, verifiedSinceLoad,
                 signedInSinceLoad, rejected>>

\* AdminDashboard's getAllProducts from the protected view: the request
\* carries the stored credential; a rejection is caught and read as [].
getAllProducts ==
  /\ AdminContentRendered
  /\ rejected' = IF Authorized(getAuthHeader(tokenItem)) \/ getAuthHeader(tokenItem) = NoToken
                   THEN rejected
                   ELSE rejected \cup {getAuthHeader(tokenItem)}
  /\ lastOp' = "getAllProducts"
  /\ sent' = {apiRequestSends("/api/products/admin/all", tokenItem)}
  /\ toast' = NoToast
  /\ form' = NoForm
  /\ UNCHANGED Elsewhere
  /\ UNCHANGED <<store, tokenItem, persistItem, route, Verification, LoginForm,
                 Backend, verifiedSinceLoad, signedInSinceLoad, signedOut, credAtFetch>>

\* AdminProducts.handleGenerateAIDescription.  Without an image link or a
\* product name it shows a notice and returns; otherwise it fetches the
\* image, and when that fetch settles it posts to the backend.  The image
\* host is not the backend API, so its fetch is not recorded in sent.
handleGenerateAIDescription ==
  /\ AdminContentRendered
  /\ \E driveUrl \in BOOLEAN, name \in BOOLEAN, imageFetched \in BOOLEAN,
        answer \in {"success", "failure", "throw"} :
       IF ~driveUrl
         THEN /\ toast' = "Please select an image from Google Drive first"
              /\ sent' = NoRequest
       ELSE IF ~name
         THEN /\ toast' = "Please enter product name first"
              /\ sent' = NoRequest
       ELSE IF ~imageFetched
         THEN /\ toast' = "Failed to generate description. Try manually entering it."
              /\ sent' = NoRequest
       ELSE /\ sent' = {generateDescriptionSends}
            /\ toast' = CASE answer = "success" -> "AI description generated!"
                           [] answer = "failure" -> "AI generation failed, using fallback"
                           [] answer = "throw" ->
                                "Failed to generate description. Try manually entering it."
  /\ lastOp' = "handleGenerateAIDescription"
  /\ form' = NoForm
  /\ UNCHANGED <<AuthState, Elsewhere>>

\* The page is loaded anew in the same tab (reload, or a URL is entered):
\* module state is rebuilt, the store is created and hydrated, requests of
\* the old page are dropped.
Load(tok, per, r) ==
  /\ tokenItem' = tok
  /\ persistItem' = per
  /\ store' = Hydrate(per)
  /\ route' = r
  /\ initPc' = "start"
  /\ verifyReq' = NoToken
  /\ isSubmitting' = FALSE
  /\ loginReq' = "empty"
  /\ signInResult' = [user |-> Null, token |-> NoToken, error |-> NoError]
  /\ verifyResult' = [valid |-> FALSE, user |-> Null]
  /\ verifiedSinceLoad' = FALSE
  /\ signedInSinceLoad' = FALSE

PageLoad ==
  /\ \E r \in Routes : Load(tokenItem, persistItem, r)
  /\ lastOp' = "PageLoad"
  /\ Quiet
  /\ UNCHANGED <<Backend, signedOut, credAtFetch, rejected>>

\* The tab is closed, which discards its session storage, and the site is
\* opened in a new tab.
TabClose ==
  /\ \E r \in Routes :
       Load([tokenItem EXCEPT !["session"] = NoToken],
            [persistItem EXCEPT !["session"] = Absent], r)
  /\ credAtFetch' = (Hydrate([persistItem EXCEPT !["session"] = Absent]).user # Null
                       /\ credAtFetch)
  /\ lastOp' = "TabClose"
  /\ Quiet
  /\ UNCHANGED <<Backend, signedOut, rejected>>

\* Backend: a credential expires.
ExpireToken ==
  /\ \E t \in valid : valid' = valid \ {t}
  /\ lastOp' = "ExpireToken"
  /\ Quiet
  /\ UNCHANGED <<store, tokenItem, persistItem, route, Verification, LoginForm,
                 nextToken, owner, verifiedSinceLoad, signedInSinceLoad, signedOut,
                 credAtFetch, rejected>>

(* -------------------------- catalog actions --------------------------- *)

Called(op, resp, r) ==
  [op |-> op, resp |-> resp, threw |-> r.threw, ret |-> r.ret, error |-> r.error]

\* The answers the backend can give: an OK answer only to a request it can
\* carry out.
Answers(can) == IF can THEN Outcomes ELSE {r \in Outcomes : r.kind # "ok"}

EmptyList == [p \in ProductIds |-> "absent"]

Listed(products) == {p \in ProductIds : products[p] # "absent"}

Read(op, resp) ==
  CASE op = "getEnabledProducts" -> getEnabledProducts(resp)
    [] op = "getProductsByCategory" -> getProductsByCategory(resp)
    [] op = "getProductById" -> getProductById(resp)
    [] op = "getAllProducts" -> getAllProductsResult(resp)
    [] op = "getProductStats" -> getProductStats(resp)
    [] op = "getCategories" -> getCategories(resp)
    [] op = "getAllCategories" -> getAllCategories(resp)
    [] op = "getEnabledCategories" -> getEnabledCategories(resp)
    [] op = "getSiteSettings" -> getSiteSettings(resp)

\* The endpoint of a service operation (path parameters left out).
Endpoint(op) ==
  CASE op \in {"getEnabledProducts", "getProductsByCategory", "createProduct"} ->
         "/api/products"
    [] op \in {"getProductById", "updateProduct", "deleteProduct"} -> "/api/products/{id}"
    [] op = "getAllProducts" -> "/api/products/admin/all"
    [] op = "getProductStats" -> "/api/products/stats"
    [] op = "toggleProductEnabled" -> "/api/products/{id}/toggle-enabled"
    [] op \in {"getCategories", "getEnabledCategories", "createCategory"} ->
         "/api/categories"
    [] op = "getAllCategories" -> "/api/categories/admin/all"
    [] op = "deleteCategory" -> "/api/categories/{id}"
    [] op \in {"getSiteSettings", "updateSiteSettings"} -> "/api/settings"
    [] op = "uploadImage" -> "/api/upload/image"

Request(op) == apiRequestSends(Endpoint(op), tokenItem)

\* A page calls a read operation of the service layer and the request settles.
ReadOperation ==
  /\ initPc # "start"
  /\ \E op \in ReadOps, resp \in Responses :
       /\ call' = Called(op, resp, Read(op, resp))
       /\ sent' = {Request(op)}
  /\ lastOp' = "ReadOperation"
  /\ toast' = NoToast
  /\ form' = NoForm
  /\ UNCHANGED <<AuthState, db, view, img>>

\* The admin page shown in AdminLayout's Outlet is replaced by another one:
\* the local state of the page that is unmounted is gone, and what its
\* pending requests bring is dropped.
Mounted(page) ==
  [view EXCEPT !.page = page, !.products = EmptyList, !.categories = {},
               !.fetching = FALSE, !.category = "all",
               !.pending = [c \in ShopCategories |-> 0], !.listOf = NoList]

\* AdminProducts is mounted: its list starts empty and its effects send
\* /api/auth/config, /api/categories and, in fetchProducts, the product list.
AdminProductsMount ==
  /\ AdminContentRendered
  /\ view' = [Mounted("products") EXCEPT !.fetching = TRUE]
  /\ sent' = {apiRequestSends("/api/auth/config", tokenItem), Request("getCategories"),
              Request("getAllProducts")}
  /\ lastOp' = "AdminProductsMount"
  /\ toast' = NoToast
  /\ form' = NoForm
  /\ call' = NoCall
  /\ UNCHANGED <<AuthState, db, img>>

\* fetchProducts from the settling of getAllProducts: setProducts(prods).
fetchProducts ==
  /\ view.page = "products"
  /\ view.fetching
  /\ \E resp \in Outcomes :
       LET r == getAllProductsResult(resp) IN
       /\ call' = Called("getAllProducts", resp, r)
       /\ view' = [view EXCEPT !.fetching = FALSE,
                                !.products = IF r.ret = "data" THEN db.products
                                             ELSE EmptyList]
  /\ toast' = NoToast
  /\ lastOp' = "fetchProducts"
  /\ sent' = NoRequest
  /\ form' = NoForm
  /\ UNCHANGED <<AuthState, db, img>>

\* What a write handler of AdminProducts does once its service call has
\* returned r: on a truthy value a notice and fetchProducts(), which sends
\* its request at once; otherwise only a notice.
AfterProductWrite(r, op, done, failed) ==
  /\ toast' = IF Truthy(r.ret) THEN done ELSE failed
  /\ view' = IF Truthy(r.ret) THEN [view EXCEPT !.fetching = TRUE] ELSE view
  /\ sent' = IF Truthy(r.ret)
               THEN {Request(op), Request("getAllProducts")}
               ELSE {Request(op)}

\* The product form: the name and price fields, the product being edited
\* (0: a new product) and, for a new product, the image link.
ProductForms ==
  {f \in [name : BOOLEAN, price : BOOLEAN, link : BOOLEAN,
          editing : {0} \cup Listed(view.products)] :
     f.editing # 0 => ~f.link}

\* AdminProducts.handleSubmit.  A new product is created enabled; an edit
\* changes fields that are not part of the model.
AdminProductsHandleSubmit ==
  /\ AdminContentRendered
  /\ view.page = "products"
  /\ \E f \in ProductForms :
       /\ form' = [NoForm EXCEPT !.kind = "product", !.name = f.name, !.price = f.price,
                                  !.editing = (f.editing # 0), !.link = f.link]
       /\ IF ~f.name \/ ~f.price
            THEN /\ toast' = "Please fill in all required fields"
                 /\ sent' = NoRequest
                 /\ call' = NoCall
                 /\ UNCHANGED <<db, view>>
          ELSE IF f.editing = 0 /\ ~f.link
            THEN /\ toast' = "Please select an image from Google Drive"
                 /\ sent' = NoRequest
                 /\ call' = NoCall
                 /\ UNCHANGED <<db, view>>
          ELSE IF f.editing # 0
            THEN \E resp \in Answers(db.products[f.editing] # "absent") :
                   LET r == updateProduct(resp) IN
                   /\ call' = Called("updateProduct", resp, r)
                   /\ db' = db
                   /\ AfterProductWrite(r, "updateProduct", "Product updated successfully",
                                        "Failed to update product")
          ELSE \E resp \in Answers(Listed(db.products) # ProductIds) :
                 LET r == createProduct(resp)
                     id == CHOOSE p \in ProductIds \ Listed(db.products) : TRUE
                 IN /\ call' = Called("createProduct", resp, r)
                    /\ db' = IF resp.kind = "ok" THEN [db EXCEPT !.products[id] = "enabled"]
                               ELSE db
                    /\ AfterProductWrite(r, "createProduct", "Product created successfully",
                                         "Failed to create product")
  /\ lastOp' = "AdminProductsHandleSubmit"
  /\ UNCHANGED <<AuthState, img>>

\* AdminProducts.handleDelete: nothing happens unless the dialog is confirmed.
AdminProductsHandleDelete ==
  /\ AdminContentRendered
  /\ view.page = "products"
  /\ \E p \in Listed(view.products), confirmed \in BOOLEAN :
       IF ~confirmed
         THEN /\ toast' = NoToast
              /\ sent' = NoRequest
              /\ call' = NoCall
              /\ UNCHANGED <<db, view>>
         ELSE \E resp \in Answers(db.products[p] # "absent") :
                LET r == deleteProduct(resp) IN
                /\ call' = Called("deleteProduct", resp, r)
                /\ db' = IF resp.kind = "ok" THEN [db EXCEPT !.products[p] = "absent"]
                           ELSE db
                /\ AfterProductWrite(r, "deleteProduct", "Product deleted",
                                     "Failed to delete product")
  /\ lastOp' = "AdminProductsHandleDelete"
  /\ form' = NoForm
  /\ UNCHANGED <<AuthState, img>>

\* AdminProducts.handleToggleEnabled: asks for the opposite of what the
\* local list shows.
handleToggleEnabled ==
  /\ AdminContentRendered
  /\ view.page = "products"
  /\ \E p \in Listed(view.products) :
       \E resp \in Answers(db.products[p] # "absent") :
         LET r == toggleProductEnabled(resp) IN
         /\ call' = Called("toggleProductEnabled", resp, r)
         /\ db' = IF resp.kind = "ok"
                    THEN [db EXCEPT !.products[p] =
                            IF view.products[p] = "enabled" THEN "disabled" ELSE "enabled"]
                    ELSE db
         /\ AfterProductWrite(r, "toggleProductEnabled",
                              IF view.products[p] = "enabled" THEN "Product disabled"
                                                              ELSE "Product enabled",
                              "Failed to update product")
  /\ lastOp' = "handleToggleEnabled"
  /\ form' = NoForm
  /\ UNCHANGED <<AuthState, img>>

\* AdminCategories is mounted and its fetchCategories settles.
AdminCategoriesMount ==
  /\ AdminContentRendered
  /\ \E resp \in Outcomes :
       LET r == getAllCategories(resp) IN
       /\ call' = Called("getAllCategories", resp, r)
       /\ view' = [Mounted("categories") EXCEPT
                     !.categories = IF r.ret = "data" THEN db.categories ELSE {}]
  /\ sent' = {Request("getAllCategories")}
  /\ lastOp' = "AdminCategoriesMount"
  /\ toast' = NoToast
  /\ form' = NoForm
  /\ UNCHANGED <<AuthState, db, img>>

\* AdminCategories.handleCreate; a created category is followed by a
\* refresh of the list, whose request settles with resp2.
handleCreate ==
  /\ AdminContentRendered
  /\ view.page = "categories"
  /\ \E name \in BOOLEAN :
       /\ form' = [NoForm EXCEPT !.kind = "category", !.name = name]
       /\ IF ~name
            THEN /\ toast' = "Please enter a category name"
                 /\ sent' = NoRequest
                 /\ call' = NoCall
                 /\ UNCHANGED <<db, view>>
            ELSE \E resp \in Answers(db.categories # CategoryIds) :
                   LET r   == createCategory(resp)
                       id  == CHOOSE c \in CategoryIds \ db.categories : TRUE
                       db1 == IF resp.kind = "ok"
                                THEN [db EXCEPT !.categories = @ \cup {id}] ELSE db
                   IN /\ call' = Called("createCategory", resp, r)
                      /\ db' = db1
                      /\ IF Truthy(r.ret)
                           THEN \E resp2 \in Outcomes :
                                  /\ toast' = "Category created"
                                  /\ view' = [view EXCEPT !.categories =
                                                IF getAllCategories(resp2).ret = "data"
                                                  THEN db1.categories ELSE {}]
                                  /\ sent' = {Request("createCategory"),
                                              Request("getAllCategories")}
                           ELSE /\ toast' = "Failed to create category"
                                /\ view' = view
                                /\ sent' = {Request("createCategory")}
  /\ lastOp' = "handleCreate"
  /\ UNCHANGED <<AuthState, img>>

\* AdminCategories.handleDelete: on success the category is filtered out of
\* the local list.
AdminCategoriesHandleDelete ==
  /\ AdminContentRendered
  /\ view.page = "categories"
  /\ \E c \in view.categories, confirmed \in BOOLEAN :
       IF ~confirmed
         THEN /\ toast' = NoToast
              /\ sent' = NoRequest
              /\ call' = NoCall
              /\ UNCHANGED <<db, view>>
         ELSE \E resp \in Answers(c \in db.categories) :
                LET r == deleteCategory(resp) IN
                /\ call' = Called("deleteCategory", resp, r)
                /\ db' = IF resp.kind = "ok" THEN [db EXCEPT !.categories = @ \ {c}]
                           ELSE db
                /\ toast' = IF Truthy(r.ret) THEN "Category deleted"
                              ELSE "Failed to delete category"
                /\ view' = IF Truthy(r.ret) THEN [view EXCEPT !.categories = @ \ {c}]
                             ELSE view
                /\ sent' = {Request("deleteCategory")}
  /\ lastOp' = "AdminCategoriesHandleDelete"
  /\ form' = NoForm
  /\ UNCHANGED <<AuthState, img>>

\* AdminSettings is mounted.
AdminSettingsMount ==
  /\ AdminContentRendered
  /\ view.page # "settings"
  /\ view' = Mounted("settings")
  /\ lastOp' = "AdminSettingsMount"
  /\ sent' = NoRequest
  /\ toast' = NoToast
  /\ form' = NoForm
  /\ call' = NoCall
  /\ UNCHANGED <<AuthState, db, img>>

\* AdminSettings.handleSubmit: formData is merged into the store's settings
\* after a success.
AdminSettingsHandleSubmit ==
  /\ AdminContentRendered
  /\ view.page = "settings"
  /\ \E formData \in SettingsValues, resp \in Outcomes :
       LET r == updateSiteSettings(resp) IN
       /\ call' = Called("updateSiteSettings", resp, r)
       /\ db' = IF resp.kind = "ok" THEN [db EXCEPT !.settings = formData] ELSE db
       /\ toast' = IF Truthy(r.ret) THEN "Settings saved successfully"
                     ELSE "Failed to save settings"
       /\ view' = IF Truthy(r.ret) THEN [view EXCEPT !.settings = formData] ELSE view
  /\ sent' = {Request("updateSiteSettings")}
  /\ lastOp' = "AdminSettingsHandleSubmit"
  /\ form' = NoForm
  /\ UNCHANGED <<AuthState, img>>

\* uploadImage(file) once fetch, if called, has settled with resp.
uploadImageResult(file, resp) ==
  LET validation == validateImage(file) IN
  IF ~validation.valid
    THEN [requested |-> FALSE, threw |-> FALSE, ret |-> "null",
          error |-> Message(validation.error, NoStatus)]
    ELSE LET r == caught(andThen(apiFormRequest(resp), "url"), "null") IN
         [requested |-> TRUE, threw |-> r.threw, ret |-> r.ret, error |-> r.error]

\* A call of uploadImage.  The function shows no notice, and no view of the
\* application calls it.
uploadImage ==
  /\ initPc # "start"
  /\ \E file \in Files :
       /\ form' = [NoForm EXCEPT !.kind = "upload", !.type = file.type,
                                  !.size = file.size]
       /\ IF validateImage(file).valid
            THEN \E resp \in Responses :
                   /\ call' = Called("uploadImage", resp, uploadImageResult(file, resp))
                   /\ sent' = {Request("uploadImage")}
            ELSE /\ call' = Called("uploadImage", NoResponse,
                                   uploadImageResult(file, NoResponse))
                 /\ sent' = NoRequest
  /\ toast' = NoToast
  /\ lastOp' = "uploadImage"
  /\ UNCHANGED <<AuthState, db, view, img>>

\* The service layer at work below the pages: reads and uploads.
NextApi ==
  \/ InitializeAuthListener
  \/ ReadOperation
  \/ uploadImage

SpecApi == Init /\ [][NextApi]_vars

\* An administrator has just signed in on a fresh tab: the state the site
\* is in after it is opened at /admin/login, the listener has run and the
\* first sign-in has succeeded.
InitAdmin ==
  /\ store = [user |-> "alice", isAdmin |-> TRUE, isLoading |-> FALSE, token |-> 1]
  /\ tokenItem = [k \in StorageKinds |-> IF k = TokenStorage THEN 1 ELSE NoToken]
  /\ persistItem = [k \in StorageKinds |->
                      IF k = PersistStorage THEN partialize(store) ELSE Absent]
  /\ route = "/admin"
  /\ initPc = "done"
  /\ verifyReq = NoToken
  /\ isSubmitting = FALSE
  /\ loginReq = "empty"
  /\ signInResult = [user |-> "alice", token |-> 1, error |-> NoError]
  /\ verifyResult = [valid |-> FALSE, user |-> Null]
  /\ nextToken = 2
  /\ owner = [t \in Tokens |-> IF t = 1 THEN "alice" ELSE Null]
  /\ valid = {1}
  /\ verifiedSinceLoad = FALSE
  /\ signedInSinceLoad = TRUE
  /\ signedOut = FALSE
  /\ credAtFetch = TRUE
  /\ rejected = {}
  /\ lastOp = "LoginOk"
  /\ sent = NoRequest
  /\ toast = "Welcome back!"
  /\ db = InitialDb
  /\ view = InitialView
  /\ call = NoCall
  /\ form = NoForm

InitCatalog == InitAdmin /\ img = NoImage

NextCatalog ==
  \/ AdminProductsMount
  \/ fetchProducts
  \/ AdminProductsHandleSubmit
  \/ AdminProductsHandleDelete
  \/ handleToggleEnabled
  \/ AdminCategoriesMount
  \/ handleCreate
  \/ AdminCategoriesHandleDelete
  \/ AdminSettingsMount
  \/ AdminSettingsHandleSubmit

\* A signed-in administrator's edits of the catalog.
SpecCatalog == InitCatalog /\ [][NextCatalog]_vars

NextForms ==
  \/ InitializeAuthListener
  \/ SubmitLogin
  \/ LoginResolve
  \/ AdminProductsMount
  \/ fetchProducts
  \/ AdminProductsHandleSubmit
  \/ AdminCategoriesMount
  \/ handleCreate
  \/ uploadImage

\* The forms of the site, from its opening: the login form, the product
\* form, the category form and the upload.
SpecForms == Init /\ [][NextForms]_vars

(* ------------------------ image URL specification --------------------- *)

\* A page is about to show an image: the url of a product and the build's
\* configuration.
InitUrl ==
  /\ InitPage
  /\ route = "/admin/login"
  /\ img \in [url : Urls, env : Envs, done : {FALSE}, result : {<<>>},
             pasted : {<<>>}]

\* The page calls getEmbeddableImageUrl(url).
NormalizeImageUrl ==
  /\ ~img.done
  /\ img' = [img EXCEPT !.done = TRUE,
                        !.result = getEmbeddableImageUrl(img.url, img.env)]
  /\ lastOp' = "getEmbeddableImageUrl"
  /\ sent' = NoRequest
  /\ toast' = NoToast
  /\ form' = NoForm
  /\ UNCHANGED <<AuthState, db, view, call>>

NextUrl == NormalizeImageUrl

SpecUrl == InitUrl /\ [][NextUrl]_vars

(* ------------------------ storefront specification -------------------- *)

\* HomePage without its check of the settings.
HomePageView_AlwaysContent(v) == "content"

\* What HomePage renders: the Coming Soon notice alone when the settings
\* store has homepageEnabled false, else the page.
HomePageView(v) == IF ~v.settings.homepageEnabled THEN "Coming Soon" ELSE "content"

\* What ProductsPage renders.
ProductsPageView(v) ==
  IF ~v.settings.productsPageEnabled THEN "Coming Soon" ELSE "content"

\* The tab goes to / : HomePage is mounted and its effect asks for the
\* enabled products and categories (its featured list is left out).
HomePageMount ==
  /\ initPc # "start"
  /\ view.page # "/"
  /\ view' = Mounted("/")
  /\ sent' = {Request("getEnabledProducts"), Request("getEnabledCategories")}
  /\ lastOp' = "HomePageMount"
  /\ toast' = NoToast
  /\ form' = NoForm
  /\ call' = NoCall
  /\ UNCHANGED <<AuthState, db, img>>

\* The tab goes to /products : ProductsPage is mounted with no category in
\* the URL, and its effects ask for the categories and the enabled products.
ProductsPageMount ==
  /\ initPc # "start"
  /\ view.page # "/products"
  /\ view' = [Mounted("/products") EXCEPT !.pending["all"] = 1]
  /\ sent' = {Request("getCategories"), Request("getEnabledProducts")}
  /\ lastOp' = "ProductsPageMount"
  /\ toast' = NoToast
  /\ form' = NoForm
  /\ call' = NoCall
  /\ UNCHANGED <<AuthState, db, img>>

\* ProductsPage.handleCategoryChange: the category of the URL changes and
\* the effect on [currentCategory] runs fetchProducts, which sends a request;
\* nothing is done about the requests already under way.
handleCategoryChange ==
  /\ view.page = "/products"
  /\ \E category \in ShopCategories \ {view.category} :
       /\ view.pending[category] < MaxPending
       /\ view' = [view EXCEPT !.category = category,
                                !.pending[category] = @ + 1]
       /\ sent' = {Request(IF category = "all" THEN "getEnabledProducts"
                           ELSE "getProductsByCategory")}
  /\ lastOp' = "handleCategoryChange"
  /\ toast' = NoToast
  /\ form' = NoForm
  /\ call' = NoCall
  /\ UNCHANGED <<AuthState, db, img>>

\* ProductsPage.fetchProducts from the settling of its request on:
\* setProducts(prods), whichever category is selected by now.
ProductsPageFetchProducts ==
  /\ view.page = "/products"
  /\ \E category \in ShopCategories, resp \in Outcomes :
       LET op == IF category = "all" THEN "getEnabledProducts"
                 ELSE "getProductsByCategory"
           r  == Read(op, resp)
       IN /\ view.pending[category] > 0
          /\ call' = Called(op, resp, r)
          /\ view' = [view EXCEPT !.pending[category] = @ - 1,
                                   !.listOf = [category |-> category, ret |-> r.ret]]
  /\ lastOp' = "ProductsPageFetchProducts"
  /\ sent' = NoRequest
  /\ toast' = NoToast
  /\ form' = NoForm
  /\ UNCHANGED <<AuthState, db, img>>

NextShop ==
  \/ HomePageMount
  \/ ProductsPageMount
  \/ handleCategoryChange
  \/ ProductsPageFetchProducts
  \/ AdminSettingsMount
  \/ AdminSettingsHandleSubmit

\* An administrator who has signed in looks at the settings page and at the
\* customers' pages in the same tab.
SpecShop == InitCatalog /\ [][NextShop]_vars

(* ---------------------- settings subscription -------------------------- *)

\* subscribeToSettings(callback): getSiteSettings().then(callback) is
\* started and the interval is set.
subscribeToSettings ==
  /\ initPc # "start"
  /\ view.poll = NoPoll
  /\ view' = [view EXCEPT !.poll = [interval |-> TRUE, cancelled |-> FALSE,
                                     inFlight |-> 1]]
  /\ sent' = {Request("getSiteSettings")}
  /\ lastOp' = "subscribeToSettings"
  /\ toast' = NoToast
  /\ form' = NoForm
  /\ call' = NoCall
  /\ UNCHANGED <<AuthState, db, img>>

\* The interval elapses: its handler calls getSiteSettings() and waits.
intervalElapsed ==
  /\ view.poll.interval
  /\ view.poll.inFlight < MaxInFlight
  /\ view' = [view EXCEPT !.poll.inFlight = @ + 1]
  /\ sent' = {Request("getSiteSettings")}
  /\ lastOp' = "intervalElapsed"
  /\ toast' = NoToast
  /\ form' = NoForm
  /\ call' = NoCall
  /\ UNCHANGED <<AuthState, db, img>>

\* A getSiteSettings() of the subscription settles and callback(settings) is
\* called; getSiteSettings never throws.
callback ==
  /\ view.poll.inFlight > 0
  /\ \E resp \in Outcomes :
       call' = Called("getSiteSettings", resp, getSiteSettings(resp))
  /\ view' = [view EXCEPT !.poll.inFlight = @ - 1]
  /\ lastOp' = "callback"
  /\ sent' = NoRequest
  /\ toast' = NoToast
  /\ form' = NoForm
  /\ UNCHANGED <<AuthState, db, img>>

\* The function subscribeToSettings returned is called: clearInterval.
clearInterval ==
  /\ view.poll.interval
  /\ view' = [view EXCEPT !.poll.interval = FALSE, !.poll.cancelled = TRUE]
  /\ lastOp' = "clearInterval"
  /\ sent' = NoRequest
  /\ toast' = NoToast
  /\ form' = NoForm
  /\ call' = NoCall
  /\ UNCHANGED <<AuthState, db, img>>

NextPoll ==
  \/ subscribeToSettings
  \/ intervalElapsed
  \/ callback
  \/ clearInterval
  \/ AdminSettingsMount
  \/ AdminSettingsHandleSubmit

\* A subscription to the settings in the tab of an administrator who
\* changes them.
SpecPoll == InitCatalog /\ [][NextPoll]_vars

(* ----------------------- seeding of categories ------------------------- *)

\* AdminCategories.seedCategories: the list becomes what the service
\* function returned and the success notice is shown; the catch branch is
\* for a call that throws.  The backend seeds the default categories when it
\* accepts the request.
AdminCategoriesSeedCategories ==
  /\ AdminContentRendered
  /\ view.page = "categories"
  /\ \E resp \in Outcomes :
       LET r == seedCategories(resp) IN
       /\ call' = Called("seedCategories", resp, r)
       /\ db' = IF resp.kind = "ok" THEN [db EXCEPT !.categories = CategoryIds] ELSE db
       /\ view' = IF r.threw THEN view
                  ELSE [view EXCEPT !.categories = IF r.ret = "data" THEN CategoryIds
                                                   ELSE {}]
       /\ toast' = IF r.threw THEN "Failed to seed categories"
                   ELSE "Default categories created"
  /\ sent' = {apiRequestSends("/api/categories/seed", tokenItem)}
  /\ lastOp' = "AdminCategoriesSeedCategories"
  /\ form' = NoForm
  /\ UNCHANGED <<AuthState, img>>

NextSeed ==
  \/ AdminCategoriesMount
  \/ handleCreate
  \/ AdminCategoriesHandleDelete
  \/ AdminCategoriesSeedCategories
  \/ AdminSettingsMount
  \/ AdminSettingsHandleSubmit

SpecSeed == InitCatalog /\ [][NextSeed]_vars

(* ------------------------ pasted link specification ------------------- *)

\* The administrator has the product form open; its image link is ''.
InitPaste ==
  /\ InitAdmin
  /\ \E e \in Envs :
       img = [NoImage EXCEPT !.env = e, !.url = [isNull |-> FALSE, chars |-> <<>>]]

\* onChange of the image link field: the pasted text goes through
\* extractDriveUrl and the result becomes driveUrl, which a later save
\* stores as the product's imageData.  The texts tried are the arguments of
\* the display normalizer and two bare identifiers, of 19 and 20 characters.
handleDriveUrlChange ==
  /\ ~img.done
  /\ img.pasted = <<>>
  /\ \E x \in {u.chars : u \in Urls} \cup {[i \in 1..n |-> "a"] : n \in {19, 20}} :
       img' = [img EXCEPT !.pasted = x,
                          !.url = [isNull |-> FALSE, chars |-> extractDriveUrl(x)]]
  /\ lastOp' = "extractDriveUrl"
  /\ sent' = NoRequest
  /\ toast' = NoToast
  /\ form' = NoForm
  /\ UNCHANGED <<AuthState, db, view, call>>

NextPaste ==
  \/ handleDriveUrlChange
  \/ NormalizeImageUrl

SpecPaste == InitPaste /\ [][NextPaste]_vars

Next ==
  \/ InitializeAuthListener
  \/ VerifyResolve
  \/ SubmitLogin
  \/ LoginResolve
  \/ handleLogout
  \/ getAllProducts
  \/ handleGenerateAIDescription
  \/ PageLoad
  \/ TabClose
  \/ ExpireToken

Spec == Init /\ [][Next]_vars

\* The listener is called once in every page load, and the request it
\* waits for is settled in the end.
SpecLive == Spec /\ WF_vars(InitializeAuthListener) /\ WF_vars(VerifyResolve)

TypeOK ==
  /\ store \in [user : Users \cup {Null}, isAdmin : BOOLEAN, isLoading : BOOLEAN,
                token : Tokens \cup {NoToken}]
  /\ tokenItem \in [StorageKinds -> Tokens \cup {NoToken}]
  /\ route \in Routes
  /\ initPc \in {"start", "verifying", "done"}
  /\ valid \subseteq Tokens
  /\ nextToken \in 1..(MaxTokens + 1)

(* ------------------------------ claims -------------------------------- *)

\* C1: protected admin content is not rendered before a remote check of the
\* stored credential has resolved in this page load.  A sign-in that
\* succeeded in this page load is counted as such a check, so that only the
\* restored-session case is put to the test.
C1_VerifiedBeforeDisplay ==
  AdminContentRendered => (verifiedSinceLoad \/ signedInSinceLoad)

\* C2: while isLoading is true AdminLayout shows the loading indicator
\* whatever user and isAdmin are, and it shows protected content only when
\* isLoading is false, user is non-null and isAdmin is true.
C2_LoadingGrantsNothing ==
  /\ \A u \in Users \cup {Null} : \A a \in BOOLEAN :
       AdminLayoutView([store EXCEPT !.user = u, !.isAdmin = a, !.isLoading = TRUE])
         = "loading"
  /\ store.isLoading => AdminLayoutView(store) = "loading"
  /\ AdminLayoutView(store) = "content"
       => (~store.isLoading /\ store.user # Null /\ store.isAdmin)

C2_Witness ==
  /\ route = "/admin"
  /\ store.isLoading /\ store.user = "alice" /\ store.isAdmin
  /\ AdminLayoutView(store) = "loading"

C4_FailedSignInChangesNothing ==
  [][ lastOp' = "LoginFail" =>
        /\ signInResult'.error \in ErrorMessages
        /\ signInResult'.user = Null
        /\ signInResult'.token = NoToken
        /\ tokenItem' = tokenItem
        /\ persistItem' = persistItem
        /\ store'.user = store.user
        /\ store'.token = store.token
        /\ store'.isAdmin = store.isAdmin
    ]_vars

C4_Witness ==
  /\ lastOp = "LoginFail"
  /\ signInResult.error = "Invalid credentials"
  /\ store.user # Null

\* C5: every execution of the logout action ends with session storage
\* holding neither auth_token nor auth-storage and with the store's user
\* null, token null and isAdmin false.
C5_LogoutClearsEverything ==
  lastOp = "handleLogout" =>
    /\ tokenItem["session"] = NoToken
    /\ ~persistItem["session"].present
    /\ store.user = Null /\ store.token = NoToken /\ ~store.isAdmin

\* C6: after a sign-out and before any sign-in succeeds, verification never
\* yields an authenticated state: no credential is stored, so verifyToken
\* returns valid=false without sending a request, no verification is in
\* flight, and the store holds no user.
C6_NoSessionAfterSignOut ==
  signedOut =>
    /\ ~verifyTokenSendsRequest(tokenItem)
    /\ initPc # "verifying"
    /\ store.user = Null /\ ~store.isAdmin
    /\ ~AdminContentRendered

C6_Witness ==
  /\ signedOut
  /\ lastOp = "initializeAuthListener"
  /\ initPc = "done"

\* C7: when the verification of a stored credential fails, the credential
\* stays in session storage, verifyToken returns valid=false with user null,
\* and once initializeAuthListener has finished the store holds no user with
\* isAdmin true and AdminLayout grants no access.  A sign-in that succeeded
\* in the same page load is not held against the claim.
C7_FailedVerificationUnauthenticated ==
  (lastOp = "VerifyResolve" /\ ~verifyResult.valid /\ ~signedInSinceLoad) =>
    /\ tokenItem["session"] # NoToken
    /\ verifyResult.user = Null
    /\ ~(store.user # Null /\ store.isAdmin)
    /\ ~AdminContentRendered

\* C8: once the backend has rejected the stored credential on a request, the
\* store no longer holds a user with admin access and the protected admin
\* views are no longer rendered.
C8_RejectedCredentialEndsSession ==
  getAuthHeader(tokenItem) \in rejected =>
    /\ ~(store.user # Null /\ store.isAdmin)
    /\ ~AdminContentRendered

\* C9: the credential and the cached profile are never written to long-lived
\* storage; a page load in the same tab restores user, isAdmin and token;
\* after the tab is closed no credential or profile remains.
C9_SessionScopedStorage ==
  [][ /\ tokenItem'["local"] = NoToken
      /\ ~persistItem'["local"].present
      /\ lastOp' = "PageLoad" =>
           /\ store'.user = store.user
           /\ store'.isAdmin = store.isAdmin
           /\ store'.token = store.token
           /\ tokenItem' = tokenItem
      /\ lastOp' = "TabClose" =>
           /\ \A k \in StorageKinds : tokenItem'[k] = NoToken /\ ~persistItem'[k].present
           /\ store'.user = Null /\ store'.token = NoToken /\ ~store'.isAdmin
    ]_vars

C9_Witness ==
  /\ lastOp = "PageLoad"
  /\ store.user = "alice" /\ store.isAdmin
  /\ store.token # NoToken /\ store.token = tokenItem["session"]

\* C10: whenever the store holds a user, a credential was in session storage
\* at the moment that user was fetched, by sign-in or by verification.
C10_ProfileImpliesCredentialAtFetch ==
  store.user # Null => credAtFetch

\* A user fetched by verification; the state before it shows the converse
\* failing: a stored credential and no user.
C10_Witness ==
  /\ lastOp = "VerifyResolve"
  /\ verifyResult.valid /\ store.user = verifyResult.user /\ store.user # Null
  /\ store.token = NoToken
  /\ credAtFetch

\* C11: a request to the backend API carries Authorization: Bearer <t> with t
\* the credential stored in sessionStorage under auth_token when one is
\* stored, and no Authorization header when none is.  No step that sends a
\* request changes the stored credential, so the state after the step shows
\* what was stored when the request was built.
C11_RequestCarriesCachedCredential ==
  \A r \in sent :
    IF tokenItem["session"] # NoToken
      THEN r.authorization /\ r.bearer = tokenItem["session"]
      ELSE ~r.authorization

\* C12: for a response with a non-OK status, the error thrown by apiRequest
\* or apiFormRequest (the service functions log it) has as its message the
\* detail of a JSON body that carries one, and for a body that cannot be
\* parsed a generic message that shows the response's status code.
C12_ErrorMessageOfNonOkResponse ==
  (call.op # "none" /\ call.resp.kind = "error") =>
    /\ call.resp.body = "detail" => call.error = Message(BodyDetail, NoStatus)
    /\ call.resp.body = "unparsable" => call.error.status = call.resp.status

\* The result C13 expects of a read whose request failed.
C13_SafeDefault(op) ==
  CASE op = "getProductById" -> "null"
    [] op = "getProductStats" -> "zeroed stats"
    [] op = "getSiteSettings" -> "defaultSettings"
    [] OTHER -> "[]"

\* C13: no read operation of the service layer throws; when its request
\* fails in transport, is rejected by the backend, or is answered with a
\* body that cannot be parsed, it returns its safe default: the empty list,
\* the null record, zeroed stats or the default settings.
C13_ReadsReturnSafeDefault ==
  call.op \in ReadOps =>
    /\ ~call.threw
    /\ (call.resp.kind # "ok" \/ call.resp.body = "unparsable")
         => call.ret = C13_SafeDefault(call.op)

\* C13 witness: reads have met a transport failure, a rejection and an
\* unparsable OK body; shown here is a rejected getProductById read as null.
C13_Witness ==
  /\ call.op = "getProductById"
  /\ call.resp.kind = "error"
  /\ call.ret = "null"
  /\ ~call.threw

C14_WriteOps ==
  {"createProduct", "updateProduct", "toggleProductEnabled", "deleteProduct",
   "createCategory", "deleteCategory", "updateSiteSettings"}

\* C14: a step in which an admin view called a write operation.  When the
\* request failed the operation returned null or false and the view's local
\* state (product list, category list, settings) is as it was; when it
\* succeeded the operation returned neither null nor false.
C14_WritesSurfaceFailure ==
  [][call'.op \in C14_WriteOps =>
       IF call'.resp.kind = "ok" /\ call'.resp.body = "json"
         THEN call'.ret \notin {"null", "false"}
         ELSE call'.ret \in {"null", "false"} /\ view' = view]_vars

\* C14 witness: a product update was lost in transport, updateProduct
\* returned false, and the view shows its failure notice.
C14_Witness ==
  /\ call.op = "updateProduct"
  /\ call.resp.kind = "transport"
  /\ call.ret = "false"
  /\ toast = "Failed to update product"
  /\ ~view.fetching

\* The submissions C15 is about: a local precondition of the form fails.
C15_PreconditionFails ==
  \/ form.kind = "login" /\ (~form.email \/ ~form.password)
  \/ form.kind = "product" /\ (~form.name \/ ~form.price \/ (~form.editing /\ ~form.link))
  \/ form.kind = "category" /\ ~form.name
  \/ form.kind = "upload"
       /\ \/ form.type \notin {"image/jpeg", "image/png", "image/gif", "image/webp"}
          \/ form.size > 5 * 1024 * 1024

\* C15 as stated: when a local precondition fails, the user is shown a notice
\* and no request is sent for that submission.
C15_FailureNoticedNoRequest ==
  C15_PreconditionFails => (toast # NoToast /\ sent = {})

\* C15, amended: when a local precondition fails no request is sent for that
\* submission; the login, product and category forms show their notice, and
\* uploadImage, which shows none, returns a null url with the error message
\* of the validation.
C15_FailureSurfacedNoRequest ==
  C15_PreconditionFails =>
    /\ sent = {}
    /\ IF form.kind = "upload"
         THEN /\ call.op = "uploadImage"
              /\ call.ret = "null"
              /\ call.error.text \in
                   {"Invalid file type. Only JPEG, PNG, GIF, and WebP are allowed.",
                    "File size too large. Maximum size is 5MB."}
         ELSE toast \in {"Please enter email and password",
                         "Please fill in all required fields",
                         "Please select an image from Google Drive",
                         "Please enter a category name"}

\* C15 witness: an upload of an allowed type but one byte over the limit was
\* answered with the size error and sent nothing.
C15_Witness ==
  /\ form.kind = "upload"
  /\ form.type = "image/webp"
  /\ form.size > 5 * 1024 * 1024
  /\ call.error.text = "File size too large. Maximum size is 5MB."
  /\ sent = {}

\* An input that is past the early returns of getEmbeddableImageUrl: a
\* non-empty string that is neither inline data, nor a local path, nor on the
\* local development host, and that names a known hosting domain.
Claim_Hosted ==
  /\ img.done
  /\ ~img.url.isNull
  /\ img.url.chars # <<>>
  /\ ~startsWith(img.url.chars, <<"d", "a", "t", "a", ":">>)
  /\ ~startsWith(img.url.chars, <<"/">>)
  /\ ~startsWith(img.url.chars,
                     <<"h", "t", "t", "p", ":", "/", "/", "l", "o", "c", "a", "l",
                       "h", "o", "s", "t">>)
  /\ \/ includes(img.url.chars, <<"g", "o", "o", "g", "l", "e", ".", "c", "o", "m">>)
     \/ includes(img.url.chars,
                  <<"g", "o", "o", "g", "l", "e", "u", "s", "e", "r", "c", "o",
                    "n", "t", "e", "n", "t", ".", "c", "o", "m">>)

\* The identifier of the first pattern of order that matches u (<<>>: none).
Claim_FirstId(u, order) ==
  IF \A i \in 1..Len(order) : match(u, order[i]) = <<>> THEN <<>>
  ELSE LET k == CHOOSE i \in 1..Len(order) :
                  /\ match(u, order[i]) # <<>>
                  /\ \A j \in 1..(i - 1) : match(u, order[j]) = <<>>
       IN match(u, order[k])

\* <apiBase>/api/images/drive/<id>
Claim_DriveUrl(env, id) ==
  apiUrl(env)
    \o
       <<"/", "a", "p", "i", "/", "i", "m", "a", "g", "e", "s", "/", "d", "r", "i",
         "v", "e", "/">>
    \o id

\* C16: for a null or absent input the result is "/placeholder.jpg", whatever
\* the configured API base.
C16_NullGivesPlaceholder ==
  (img.done /\ img.url.isNull) =>
    img.result =
      <<"/", "p", "l", "a", "c", "e", "h", "o", "l", "d", "e", "r", ".", "j", "p",
        "g">>

\* C16 witness: a null input was normalized under a configured API base.
C16_Witness ==
  /\ img.done
  /\ img.url.isNull
  /\ img.env # <<>>
  /\ Len(img.result) = 16

\* C17: a non-empty input that is inline data, a local path, a URL of the
\* local development host, or that names neither google.com nor
\* googleusercontent.com, is returned unchanged, and normalizing the result
\* again gives the same result.
C17_UnchangedAndIdempotent ==
  LET u == img.url.chars IN
  (/\ img.done
   /\ ~img.url.isNull
   /\ u # <<>>
   /\ \/ startsWith(u, <<"d", "a", "t", "a", ":">>)
      \/ startsWith(u, <<"/">>)
      \/ startsWith(u,
                     <<"h", "t", "t", "p", ":", "/", "/", "l", "o", "c", "a", "l",
                       "h", "o", "s", "t">>)
      \/ /\ ~includes(u, <<"g", "o", "o", "g", "l", "e", ".", "c", "o", "m">>)
         /\ ~includes(u,
                  <<"g", "o", "o", "g", "l", "e", "u", "s", "e", "r", "c", "o",
                    "n", "t", "e", "n", "t", ".", "c", "o", "m">>))
  => /\ img.result = u
     /\ getEmbeddableImageUrl([isNull |-> FALSE, chars |-> img.result], img.env)
          = img.result

\* C17 witness: inline data whose text names a hosting domain came back
\* unchanged.
C17_Witness ==
  /\ img.done
  /\ startsWith(img.url.chars, <<"d", "a", "t", "a", ":">>)
  /\ includes(img.url.chars, <<"g", "o", "o", "g", "l", "e", ".", "c", "o", "m">>)
  /\ img.result = img.url.chars

\* C18 as stated: the identifier used is that of the first pattern that
\* matches in the order content-host form, open-by-id form, id= query
\* parameter form, path-segment form.
C18_FirstOfFourPatterns ==
  LET order == <<Patterns[1], Patterns[3], Patterns[4], Patterns[5]>>
      id    == Claim_FirstId(img.url.chars, order)
  IN (Claim_Hosted /\ id # <<>>) => img.result = Claim_DriveUrl(img.env, id)

\* C18, amended: the identifier used is that of the first pattern that
\* matches in the order content-host form, /file/d/ form, open-by-id form,
\* id= query parameter form, path-segment form; a later pattern never
\* replaces it.
C18_FirstOfFivePatterns ==
  LET id == Claim_FirstId(img.url.chars, Patterns)
  IN (Claim_Hosted /\ id # <<>>) => img.result = Claim_DriveUrl(img.env, id)

\* C18 witness: an input with a /file/d/ identifier and a different id=
\* parameter gave the /file/d/ identifier.
C18_Witness ==
  /\ Claim_Hosted
  /\ match(img.url.chars, Patterns[1]) = <<>>
  /\ match(img.url.chars, Patterns[2]) # <<>>
  /\ match(img.url.chars, Patterns[4]) # <<>>
  /\ match(img.url.chars, Patterns[4]) # match(img.url.chars, Patterns[2])
  /\ img.result = Claim_DriveUrl(img.env, match(img.url.chars, Patterns[2]))

\* The positions of u at which the text p starts.
Claim_Occurrences(u, p) ==
  {i \in 1..Len(u) : i + Len(p) - 1 <= Len(u) /\ SubSeq(u, i, i + Len(p) - 1) = p}

\* The longest run of identifier characters of u that starts at position j.
Claim_Run(u, j) ==
  LET ends == {k \in (j - 1)..Len(u) : \A m \in j..k : u[m] \in IdChars}
      last == CHOOSE k \in ends : \A m \in ends : m <= k
  IN SubSeq(u, j, last)

\* The identifiers that follow an occurrence of p in u.
Claim_IdsAfter(u, p) ==
  {Claim_Run(u, i + Len(p)) : i \in Claim_Occurrences(u, p)} \ {<<>>}

\* The identifiers <id> of the /file/d/<id>/view forms in u.
Claim_FileViewIds(u) ==
  LET p == <<"/", "f", "i", "l", "e", "/", "d", "/">> IN
  {Claim_Run(u, i + Len(p)) :
     i \in {k \in Claim_Occurrences(u, p) :
              LET id == Claim_Run(u, k + Len(p))
              IN /\ id # <<>>
                 /\ startsWith(SubSeq(u, k + Len(p) + Len(id), Len(u)),
                               <<"/", "v", "i", "e", "w">>)}}

\* The identifier after the first /file/d/ of u that is followed by one.
Claim_FirstFileId(u) ==
  LET p    == <<"/", "f", "i", "l", "e", "/", "d", "/">>
      hits == {i \in Claim_Occurrences(u, p) : Claim_Run(u, i + Len(p)) # <<>>}
  IN IF hits = {} THEN <<>>
     ELSE Claim_Run(u, (CHOOSE i \in hits : \A k \in hits : i <= k) + Len(p))

\* The values of the id query parameters of u.
Claim_IdParams(u) ==
  Claim_IdsAfter(u, <<"?", "i", "d", "=">>) \cup Claim_IdsAfter(u, <<"&", "i", "d", "=">>)

\* No path-based pattern (content-host, /file/d/, /d/) finds an identifier.
Claim_NoPathId(u) ==
  /\ match(u, Patterns[1]) = <<>>
  /\ match(u, Patterns[2]) = <<>>
  /\ match(u, Patterns[5]) = <<>>

\* What follows <apiBase>/api/images/drive/ in the result (<<>>: the result
\* has no such form).
Claim_DriveId ==
  LET prefix == Claim_DriveUrl(img.env, <<>>) IN
  IF startsWith(img.result, prefix)
  THEN SubSeq(img.result, Len(prefix) + 1, Len(img.result))
  ELSE <<>>

\* C19 as stated: when an identifier is extracted the result is
\* <apiBase>/api/images/drive/<id>; for every /file/d/<id>/view form in the
\* input <id> is the segment after /file/d/; with no path-based identifier
\* <id> is the value of an id query parameter.
C19_DriveUrlOfExtractedId ==
  LET u == img.url.chars IN
  (Claim_Hosted /\ Claim_FirstId(u, Patterns) # <<>>) =>
    /\ Claim_DriveId # <<>>
    /\ \E i \in 1..Len(Patterns) : Claim_DriveId = match(u, Patterns[i])
    /\ \A id \in Claim_FileViewIds(u) : Claim_DriveId = id
    /\ (Claim_NoPathId(u) /\ Claim_IdParams(u) # {}) =>
         Claim_DriveId \in Claim_IdParams(u)

\* C19, amended: when an identifier is extracted the result is
\* <apiBase>/api/images/drive/<id>; when the content-host form does not also
\* match, <id> is the identifier after the first /file/d/ that is followed by
\* one; with no path-based identifier <id> is the value of an id query
\* parameter.
C19_DriveUrlOfFirstFileId ==
  LET u == img.url.chars IN
  (Claim_Hosted /\ Claim_FirstId(u, Patterns) # <<>>) =>
    /\ Claim_DriveId # <<>>
    /\ \E i \in 1..Len(Patterns) : Claim_DriveId = match(u, Patterns[i])
    /\ (match(u, Patterns[1]) = <<>> /\ Claim_FirstFileId(u) # <<>>) =>
         Claim_DriveId = Claim_FirstFileId(u)
    /\ (Claim_NoPathId(u) /\ Claim_IdParams(u) # {}) =>
         Claim_DriveId \in Claim_IdParams(u)

\* C19 witness: a /file/d/<id>/view input with a six-character identifier
\* gave the default API base followed by /api/images/drive/<id>.
C19_Witness ==
  /\ Claim_Hosted
  /\ img.env = <<>>
  /\ Claim_FileViewIds(img.url.chars) # {}
  /\ \A id \in Claim_FileViewIds(img.url.chars) :
       Len(id) = Len(<<"f", "F", "1", "Z", "z", "0">>)
  /\ img.result \in {Claim_DriveUrl(<<>>, id) : id \in Claim_FileViewIds(img.url.chars)}

\* C19 second witness: an input with an id query parameter and no path-based
\* identifier gave the parameter's value.
C19_WitnessIdParam ==
  /\ Claim_Hosted
  /\ Claim_NoPathId(img.url.chars)
  /\ Claim_IdParams(img.url.chars) # {}
  /\ Claim_DriveId \in Claim_IdParams(img.url.chars)

\* The character that a percent escape stands for.
Claim_Unescape(h) ==
  CASE h = <<"3", "A">> -> ":"
    [] h = <<"2", "F">> -> "/"
    [] h = <<"3", "F">> -> "?"
    [] h = <<"3", "D">> -> "="
    [] h = <<"2", "6">> -> "&"
    [] h = <<"2", "5">> -> "%"
    [] OTHER -> "undecodable"

\* URL-decoding of s from position i on.
RECURSIVE Claim_DecodeFrom(_, _)
Claim_DecodeFrom(s, i) ==
  IF i > Len(s) THEN <<>>
  ELSE IF s[i] = "%"
       THEN IF i + 2 > Len(s) THEN <<"undecodable">>
            ELSE <<Claim_Unescape(SubSeq(s, i + 1, i + 2))>>
                   \o Claim_DecodeFrom(s, i + 3)
       ELSE <<s[i]>> \o Claim_DecodeFrom(s, i + 1)

\* <apiBase>/api/images/proxy?url=
Claim_ProxyPrefix(env) ==
  apiUrl(env)
    \o
       <<"/", "a", "p", "i", "/", "i", "m", "a", "g", "e", "s", "/", "p",
         "r", "o", "x", "y", "?", "u", "r", "l", "=">>

\* C20: an input that names a known hosting domain but from which no pattern
\* extracts an identifier gives <apiBase>/api/images/proxy?url= followed by
\* the URL-encoded input (only unreserved characters and percent escapes,
\* decoding to the input), never the placeholder nor the input itself.
C20_ProxyUrlOfEncodedInput ==
  LET u      == img.url.chars
      prefix == Claim_ProxyPrefix(img.env)
      rest   == SubSeq(img.result, Len(prefix) + 1, Len(img.result))
  IN (Claim_Hosted /\ Claim_FirstId(u, Patterns) = <<>>) =>
       /\ startsWith(img.result, prefix)
       /\ \A k \in 1..Len(rest) : rest[k] \in Unreserved \cup {"%"}
       /\ Claim_DecodeFrom(rest, 1) = u
       /\ img.result # u
       /\ img.result #
           <<"/", "p", "l", "a", "c", "e", "h", "o", "l", "d", "e", "r", ".",
             "j", "p", "g">>

\* C20 witness: a drive URL with a /file/d/ path that has no identifier went
\* to the proxy under a configured API base, with its reserved characters
\* escaped.
C20_Witness ==
  /\ Claim_Hosted
  /\ img.env # <<>>
  /\ Claim_FirstId(img.url.chars, Patterns) = <<>>
  /\ includes(img.url.chars, <<"/", "f", "i", "l", "e", "/", "d", "/">>)
  /\ startsWith(img.result, Claim_ProxyPrefix(img.env))
  /\ Len(img.result) > Len(Claim_ProxyPrefix(img.env)) + Len(img.url.chars)

\* C21: for a content-host direct-file URL (a googleusercontent.com/d/<id>
\* link) getEmbeddableImageUrl returns the input unchanged.
C21_ContentHostLinkUnchanged ==
  (/\ img.done
   /\ ~img.url.isNull
   /\ startsWith(img.url.chars, <<"h", "t", "t", "p", "s", ":", "/", "/">>)
   /\ match(img.url.chars, Patterns[1]) # <<>>)
  => img.result = img.url.chars

\* The pasted text is a link on a known hosting domain.
Claim_PastedHostedLink ==
  /\ startsWith(img.pasted, <<"h", "t", "t", "p", "s", ":", "/", "/">>)
  /\ \/ includes(img.pasted, <<"g", "o", "o", "g", "l", "e", ".", "c", "o", "m">>)
     \/ includes(img.pasted,
                  <<"g", "o", "o", "g", "l", "e", "u", "s", "e", "r", "c",
                    "o", "n", "t", "e", "n", "t", ".", "c", "o", "m">>)

\* C22: for every link on a known hosting domain, displaying the value that
\* extractDriveUrl stored gives the same result as displaying the pasted link
\* itself: getEmbeddableImageUrl(extractDriveUrl(x)) = getEmbeddableImageUrl(x).
C22_NormalizersAgree ==
  (img.done /\ Claim_PastedHostedLink) =>
    img.result
      = getEmbeddableImageUrl([isNull |-> FALSE, chars |-> img.pasted], img.env)

\* C23: extractDriveUrl never gives the placeholder path; it gives either
\* its input or https://lh3.googleusercontent.com/d/<id>, and when the
\* display normalizer finds an identifier in the input too, <id> is that
\* identifier (the same precedence of patterns).
C23_SamePrecedenceDirectUrl ==
  LET x      == img.pasted
      y      == img.url.chars
      direct ==
        <<"h", "t", "t", "p", "s", ":", "/", "/", "l", "h", "3", ".", "g",
          "o", "o", "g", "l", "e", "u", "s", "e", "r", "c", "o", "n", "t",
          "e", "n", "t", ".", "c", "o", "m", "/", "d", "/">>
      id     == SubSeq(y, Len(direct) + 1, Len(y))
  IN (lastOp = "extractDriveUrl") =>
       /\ y #
            <<"/", "p", "l", "a", "c", "e", "h", "o", "l", "d", "e", "r",
              ".", "j", "p", "g">>
       /\ \/ y = x
          \/ /\ startsWith(y, direct)
             /\ id # <<>>
             /\ \A k \in 1..Len(id) : id[k] \in IdChars
       /\ (y # x /\ fileId(x) # <<>>) => id = fileId(x)

C27_ListOfSelectedCategory ==
  (view.page = "/products" /\ \A c \in ShopCategories : view.pending[c] = 0)
    => view.listOf.category = view.category

\* C25: the user held in the auth store is always the profile that belongs
\* to the credential stored in sessionStorage under auth_token, under every
\* interleaving of sign-in and start-up verification.
C25_UserOfStoredCredential ==
  store.user # Null =>
    /\ tokenItem[TokenStorage] # NoToken
    /\ owner[tokenItem[TokenStorage]] = store.user

\* C26: in every state of the auth store reachable through sign-in, start-up
\* initialization, page reload and logout, isAdmin is true exactly when user
\* is non-null and user.isAdmin is true.
C26_IsAdminIffAdminUser ==
  store.isAdmin <=> (store.user # Null /\ UserIsAdmin(store.user))

\* C26 witness: a page reload restored a signed-in user who is not an
\* administrator and the listener took the persisted-session path.
C26_Witness ==
  /\ lastOp = "initializeAuthListener"
  /\ initPc = "done"
  /\ store.user # Null
  /\ ~UserIsAdmin(store.user)
  /\ ~store.isAdmin

\* C29: provided the verification request settles, every run of
\* initializeAuthListener that is not cut off by a reload or the end of the
\* tab gets to a state with isLoading false, and within a page load nothing
\* sets isLoading back to true.
C29_LoadingEnds ==
  /\ store.isLoading ~> (~store.isLoading \/ lastOp \in {"PageLoad", "TabClose"})
  /\ [][(~store.isLoading /\ store'.isLoading)
          => lastOp' \in {"PageLoad", "TabClose"}]_vars

\* C29 witness: a verification that failed has ended with isLoading false.
C29_Witness ==
  /\ lastOp = "VerifyResolve"
  /\ ~verifyResult.valid
  /\ ~store.isLoading

\* C28: after the cancellation function returned by subscribeToSettings has
\* been called, the subscriber's callback is not invoked again, not even for
\* a request that was in flight when it was called.
C28_NoCallbackAfterCancel ==
  lastOp = "callback" => ~view.poll.cancelled

\* C30: when the seed-default-categories request fails, the admin categories
\* view reports a failure and leaves its category list as it was; the
\* success notice is shown and the list replaced only when the request
\* succeeded.
C30_SeedFailureSurfaced ==
  [][lastOp' = "AdminCategoriesSeedCategories" =>
       /\ call'.resp.kind # "ok" =>
            /\ toast' = "Failed to seed categories"
            /\ view'.categories = view.categories
       /\ toast' = "Default categories created" => call'.resp.kind = "ok"
    ]_vars

====
